---- MODULE Spec2Model ----
(***************************************************************************)
(* Model of the bulk/block deal pipeline of MF_PARTICIPATION:             *)
(*   bulkblock_datafecthing1.py  fetch_csv, detect_date_column, run       *)
(*   MF_Paricipation.py          nse_session, fetch_bulk_block,           *)
(*                               is_mutual_fund, classify_flow            *)
(*   MFH_Analysis.py             load_data, is_mutual_fund                *)
(* Text is a sequence of one-character strings, so that upper(), lower(), *)
(* replace() and the "in" substring test are computed, not assumed.       *)
(***************************************************************************)
EXTENDS Integers, Sequences, FiniteSets, TLC

VARIABLES
    disk,      \* file path -> Absent or the table stored in the file
    pc,        \* position of the merger script inside run()
    bulk,      \* local of run(): what fetch_csv(BULK_URL, "Bulk") returned
    block,     \* local of run(): what fetch_csv(BLOCK_URL, "Block") returned
    report,    \* how the last run() ended and what it printed
    reader,    \* how the last load_data() of the analysis page ended
    apiPc,     \* position of the dashboard inside fetch_bulk_block()
    apiFrames, \* local "frames" of fetch_bulk_block()
    apiResult, \* what the last fetch_bulk_block() gave its caller
    page,      \* what the dashboard showed for it
    row,       \* the record handed to the classifier
    signal,    \* classify_flow(row), once applied
    verdict    \* is_mutual_fund of both modules on row's buyer, once applied

vars == << disk, pc, bulk, block, report, reader,
           apiPc, apiFrames, apiResult, page, row, signal, verdict >>

mergerVars == << disk, pc, bulk, block, report >>
apiVars == << apiPc, apiFrames, apiResult, page >>
classifierVars == << row, signal, verdict >>

(***************************************************************************)
(* Bounds                                                                  *)
(***************************************************************************)
\* longest generated counterparty name, in characters
MaxNameLen == 2
\* most data rows in one feed's CSV body
MaxRows == 1

(***************************************************************************)
(* Text                                                                    *)
(***************************************************************************)
LowerCase == << "a","b","c","d","e","f","g","h","i","j","k","l","m",
                "n","o","p","q","r","s","t","u","v","w","x","y","z" >>
UpperCase == << "A","B","C","D","E","F","G","H","I","J","K","L","M",
                "N","O","P","Q","R","S","T","U","V","W","X","Y","Z" >>

Range(s) == { s[i] : i \in DOMAIN s }

IndexOf(c, s) == CHOOSE i \in DOMAIN s : s[i] = c

\* str.upper() / str.lower(), character by character
upper(s) == [ i \in DOMAIN s |->
                IF s[i] \in Range(LowerCase)
                THEN UpperCase[IndexOf(s[i], LowerCase)] ELSE s[i] ]
lower(s) == [ i \in DOMAIN s |->
                IF s[i] \in Range(UpperCase)
                THEN LowerCase[IndexOf(s[i], UpperCase)] ELSE s[i] ]

\* str.replace(" ", "")
RECURSIVE replace_spaces(_)
replace_spaces(s) ==
    IF s = << >> THEN << >>
    ELSE IF Head(s) = " " THEN replace_spaces(Tail(s))
         ELSE << Head(s) >> \o replace_spaces(Tail(s))

\* the positions at which k occurs in s
Occurrences(k, s) ==
    { i \in 1..(Len(s) - Len(k) + 1) : SubSeq(s, i, i + Len(k) - 1) = k }

\* Python's "k in s" for strings
contains(k, s) == Occurrences(k, s) # {}

\* all texts over alphabet of length at most n
RECURSIVE TextsUpTo(_, _)
TextsUpTo(alphabet, n) ==
    IF n = 0 THEN { << >> }
    ELSE LET shorter == TextsUpTo(alphabet, n - 1)
         IN  shorter \cup { Append(t, c) : t \in shorter, c \in alphabet }

(***************************************************************************)
(* Identity classifier                                                     *)
(***************************************************************************)
\* A value is a Python str or something else (None, NaN)
Str(s) == [ isStr |-> TRUE, text |-> s ]
None == [ isStr |-> FALSE, text |-> << >> ]

\* the keywords list of is_mutual_fund of the live dashboard
KEYWORDS ==
    << <<"M","U","T","U","A","L"," ","F","U","N","D">>,
       <<"M","F">>,
       <<"T","R","U","S","T","E","E">>,
       <<"A","M","C">>,
       <<"A","S","S","E","T"," ","M","A","N","A","G","E","M","E","N","T">>,
       <<"S","B","I">>,
       <<"H","D","F","C">>,
       <<"I","C","I","C","I">>,
       <<"A","X","I","S">>,
       <<"K","O","T","A","K">>,
       <<"N","I","P","P","O","N">>,
       <<"D","S","P">>,
       <<"U","T","I">>,
       <<"M","I","R","A","E">>,
       <<"A","D","I","T","Y","A">>,
       <<"I","N","V","E","S","C","O">> >>

\* MF_KEYWORDS of the analysis page
MF_KEYWORDS ==
    << <<"3","6","0"," ","O","N","E">>,
       <<"A","B","A","K","K","U","S">>,
       <<"A","D","I","T","Y","A"," ","B","I","R","L","A"," ","S","U","N"," ","L","I","F","E">>,
       <<"A","N","G","E","L"," ","O","N","E">>,
       <<"A","X","I","S">>,
       <<"B","A","J","A","J"," ","F","I","N","S","E","R","V">>,
       <<"B","A","N","D","H","A","N">>,
       <<"B","A","N","K"," ","O","F"," ","I","N","D","I","A">>,
       <<"B","A","R","O","D","A"," ","B","N","P"," ","P","A","R","I","B","A","S">>,
       <<"C","A","N","A","R","A"," ","R","O","B","E","C","O">>,
       <<"C","A","P","I","T","A","L","M","I","N","D">>,
       <<"C","H","O","I","C","E">>,
       <<"D","S","P">>,
       <<"E","D","E","L","W","E","I","S","S">>,
       <<"F","R","A","N","K","L","I","N"," ","T","E","M","P","L","E","T","O","N">>,
       <<"G","R","O","W","W">>,
       <<"H","D","F","C">>,
       <<"H","E","L","I","O","S">>,
       <<"H","S","B","C">>,
       <<"I","C","I","C","I"," ","P","R","U","D","E","N","T","I","A","L">>,
       <<"I","D","B","I">>,
       <<"I","N","V","E","S","C","O">>,
       <<"J","M"," ","F","I","N","A","N","C","I","A","L">>,
       <<"J","I","O"," ","B","L","A","C","K","R","O","C","K">>,
       <<"K","O","T","A","K">>,
       <<"L","I","C">>,
       <<"M","A","H","I","N","D","R","A"," ","M","A","N","U","L","I","F","E">>,
       <<"M","I","R","A","E"," ","A","S","S","E","T">>,
       <<"M","O","T","I","L","A","L"," ","O","S","W","A","L">>,
       <<"N"," ","J">>,
       <<"N","A","V","I">>,
       <<"N","I","P","P","O","N"," ","I","N","D","I","A">>,
       <<"O","L","D"," ","B","R","I","D","G","E">>,
       <<"P","G","I","M"," ","I","N","D","I","A">>,
       <<"P","P","F","A","S">>,
       <<"Q","U","A","N","T">>,
       <<"Q","U","A","N","T","U","M">>,
       <<"S","A","M","C","O">>,
       <<"S","B","I">>,
       <<"S","H","R","I","R","A","M">>,
       <<"S","U","N","D","A","R","A","M">>,
       <<"T","A","T","A">>,
       <<"T","A","U","R","U","S">>,
       <<"T","H","E"," ","W","E","A","L","T","H"," ","C","O","M","P","A","N","Y">>,
       <<"T","R","U","S","T">>,
       <<"U","N","I","F","I">>,
       <<"U","N","I","O","N">>,
       <<"U","T","I">>,
       <<"W","H","I","T","E","O","A","K"," ","C","A","P","I","T","A","L">>,
       <<"Z","E","R","O","D","H","A">> >>

\* is_mutual_fund of the live dashboard
is_mutual_fund(name) ==
    IF ~name.isStr THEN FALSE
    ELSE \E i \in DOMAIN KEYWORDS : contains(KEYWORDS[i], upper(name.text))

\* is_mutual_fund of the analysis page
MFH_is_mutual_fund(name) ==
    IF ~name.isStr THEN FALSE
    ELSE \E i \in DOMAIN MF_KEYWORDS : contains(MF_KEYWORDS[i], upper(name.text))

ACCUMULATION == "MF ACCUMULATION"
EXIT == "MF EXIT"
IGNORE == "IGNORE"

\* classify_flow without the "and not seller_mf" of its first test
classify_flow_BuyerOnly(r) ==
    LET buyer_mf == is_mutual_fund(r.clientName)
        seller_mf == is_mutual_fund(r.sellClientName)
    IN  IF buyer_mf THEN ACCUMULATION
        ELSE IF seller_mf /\ ~buyer_mf THEN EXIT
        ELSE IGNORE

\* classify_flow: row.get(...) of a missing key is None
classify_flow(r) ==
    LET buyer_mf == is_mutual_fund(r.clientName)
        seller_mf == is_mutual_fund(r.sellClientName)
    IN  IF buyer_mf /\ ~seller_mf THEN ACCUMULATION
        ELSE IF seller_mf /\ ~buyer_mf THEN EXIT
        ELSE IGNORE

\* counterparty names the classifier is applied to
SampleNames ==
    { <<"U","T","I">>,
      <<"U","T","I","L","I","T","Y"," ","C","O","R","P">>,
      <<"S","B","I"," ","M","U","T","U","A","L"," ","F","U","N","D">>,
      <<"R","A","N","D","O","M"," ","L","T","D">>,
      <<"u","t","i"," ","a","m","c">>,
      <<"C","O","M","F","O","R","T"," ","L","T","D">>,
      <<"H","d","f","c"," ","T","r","u","s","t","e","e">> }

NameAlphabet == { "M", "F", "f", " ", "X" }

Names ==
    { None } \cup { Str(t) : t \in SampleNames \cup TextsUpTo(NameAlphabet, MaxNameLen) }

Unset == "unset"
Bool2Str(b) == IF b THEN "True" ELSE "False"

InitClassifierIdle ==
    /\ row = [ clientName |-> None, sellClientName |-> None ]
    /\ signal = Unset
    /\ verdict = [ dashboard |-> Unset, analysis |-> Unset ]

\* df.apply(classify_flow, axis=1), one row at a time
ApplyClassifyFlow ==
    /\ signal = Unset
    /\ signal' = classify_flow(row)
    /\ UNCHANGED << row, verdict >>

\* is_mutual_fund of the live dashboard on the row's buyer
ApplyIsMutualFund ==
    /\ verdict.dashboard = Unset
    /\ verdict' = [ verdict EXCEPT !.dashboard = Bool2Str(is_mutual_fund(row.clientName)) ]
    /\ UNCHANGED << row, signal >>

\* is_mutual_fund of the analysis page on the row's buyer
ApplyMfhIsMutualFund ==
    /\ verdict.analysis = Unset
    /\ verdict' = [ verdict EXCEPT !.analysis = Bool2Str(MFH_is_mutual_fund(row.clientName)) ]
    /\ UNCHANGED << row, signal >>

(***************************************************************************)
(* Tables (pandas DataFrame): a sequence of column names and a sequence   *)
(* of rows, each row a function from the table's columns to cell values.  *)
(* A text cell is a string, a missing text cell is NaN.  A date cell is   *)
(* NaT or { yyyymmdd }, so that dates compare as Python dates do.         *)
(***************************************************************************)
NaN == "NaN"
NaT == { }

\* column names, and how each is spelt
COL_DATE == "Date "
COL_SYMBOL == "Symbol"
COL_DEAL_TYPE == "Deal Type"
COL_TRADE_DATE == "Trade Date"
COL_TRADEDATE == "tradeDate"
COL_DATE_STRIPPED == "Date"
COL_CLIENT == "clientName"
COL_SELL_CLIENT == "sellClientName"
COL_SIGNAL == "MF Signal"

Columns == { COL_DATE, COL_SYMBOL, COL_DEAL_TYPE, COL_TRADE_DATE,
             COL_TRADEDATE, COL_DATE_STRIPPED, COL_CLIENT, COL_SELL_CLIENT,
             COL_SIGNAL }

Spelling(col) ==
    CASE col = COL_DATE -> <<"D","a","t","e"," ">>
      [] col = COL_DATE_STRIPPED -> <<"D","a","t","e">>
      [] col = COL_SYMBOL -> <<"S","y","m","b","o","l">>
      [] col = COL_DEAL_TYPE -> <<"D","e","a","l"," ","T","y","p","e">>
      [] col = COL_TRADE_DATE -> <<"T","r","a","d","e"," ","D","a","t","e">>
      [] col = COL_TRADEDATE -> <<"t","r","a","d","e","D","a","t","e">>
      [] col = COL_CLIENT -> <<"c","l","i","e","n","t","N","a","m","e">>
      [] col = COL_SELL_CLIENT ->
             <<"s","e","l","l","C","l","i","e","n","t","N","a","m","e">>
      [] col = COL_SIGNAL -> <<"M","F"," ","S","i","g","n","a","l">>

\* the column spelt s
Spelt(s) == CHOOSE c \in Columns : Spelling(c) = s

EmptyFrame == [ columns |-> << >>, rows |-> << >> ]

\* the cell of row r under column c of a table that has column c or not
Cell(r, c) == IF c \in DOMAIN r THEN r[c] ELSE NaN

\* pd.concat(frames, ignore_index=True): the columns of a, then the new
\* columns of b; cells of a column a frame lacks are NaN
concat(a, b) ==
    LET extra == SelectSeq(b.columns, LAMBDA c : c \notin Range(a.columns))
        cols == a.columns \o extra
        widen(r) == [ c \in Range(cols) |-> Cell(r, c) ]
    IN  [ columns |-> cols,
          rows |-> [ i \in 1..(Len(a.rows) + Len(b.rows)) |->
                       IF i <= Len(a.rows) THEN widen(a.rows[i])
                       ELSE widen(b.rows[i - Len(a.rows)]) ] ]

\* df[col] = values, one value per row: adds the column, or overwrites it
assign(df, col, values) ==
    [ columns |-> IF col \in Range(df.columns) THEN df.columns
                  ELSE Append(df.columns, col),
      rows |-> [ i \in DOMAIN df.rows |->
                   [ c \in Range(df.columns) \cup { col } |->
                       IF c = col THEN values[i] ELSE df.rows[i][c] ] ] ]

\* df[mask]: the rows whose index is in mask, in order
RECURSIVE select_from(_, _, _)
select_from(rows, mask, i) ==
    IF i > Len(rows) THEN << >>
    ELSE IF i \in mask THEN << rows[i] >> \o select_from(rows, mask, i + 1)
    ELSE select_from(rows, mask, i + 1)
select(df, mask) ==
    [ columns |-> df.columns, rows |-> select_from(df.rows, mask, 1) ]

\* df.drop_duplicates(): of equal full rows the first is kept
drop_duplicates(df) ==
    select(df, { i \in DOMAIN df.rows :
                   \A j \in 1..(i - 1) : df.rows[j] # df.rows[i] })

\* the dates the exchange writes into a CSV, and a cell that is no date
RawDates == { "10-JAN-2024", "11-JAN-2024", "N/A" }

\* pd.to_datetime(cell, errors="coerce").dt.date
to_date(cell) ==
    CASE cell = "10-JAN-2024" -> { 20240110 }
      [] cell = "11-JAN-2024" -> { 20240111 }
      [] OTHER -> NaT

\* the non-null values of the Trade Date column
TradeDates(df) == UNION { df.rows[i][COL_TRADE_DATE] : i \in DOMAIN df.rows }

HasNullDate(df) == \E i \in DOMAIN df.rows : df.rows[i][COL_TRADE_DATE] = NaT

SetMax(S) == CHOOSE m \in S : \A x \in S : x <= m

(***************************************************************************)
(* bulkblock_datafecthing1.py                                              *)
(***************************************************************************)
MASTER_FILE == "data/bulk_block_master.parquet"
DATA_FILE == "data/bulk_block_master.csv"
Absent == [ exists |-> FALSE, table |-> EmptyFrame ]
File(df) == [ exists |-> TRUE, table |-> df ]

DateKeys == { <<"d","a","t","e">>,
              <<"t","r","a","d","e","d","a","t","e">>,
              <<"d","t">> }

\* key = col.lower().replace(" ", ""); key in ("date", "tradedate", "dt")
IsDateKey(col) == replace_spaces(lower(Spelling(col))) \in DateKeys

\* detect_date_column: << >> is None, << col >> the first matching column
detect_date_column(df) ==
    LET hits == { i \in DOMAIN df.columns : IsDateKey(df.columns[i]) }
    IN  IF hits = {} THEN << >>
        ELSE << df.columns[CHOOSE i \in hits : \A j \in hits : i <= j] >>

\* what requests.get can come back with for one CSV feed
Timeout == [ raised |-> TRUE, status_code |-> 0, text |-> EmptyFrame, blank |-> TRUE ]
Response(code, body, isBlank) ==
    [ raised |-> FALSE, status_code |-> code, text |-> body, blank |-> isBlank ]

\* a CSV text of the exchange, already split into header and data rows:
\* with its date column, or without one
CsvBodies ==
    { [ columns |-> << COL_DATE, COL_SYMBOL >>,
        rows |-> [ i \in 1..n |->
                     [ c \in { COL_DATE, COL_SYMBOL } |->
                         IF c = COL_DATE THEN cells[i] ELSE "ACME" ] ] ] :
      n \in 0..MaxRows, cells \in [ 1..MaxRows -> RawDates ] }
    \cup
    { [ columns |-> << COL_SYMBOL >>,
        rows |-> [ i \in 1..n |-> [ c \in { COL_SYMBOL } |-> "ACME" ] ] ] :
      n \in 0..MaxRows }

CsvResponses ==
    { Timeout, Response(403, EmptyFrame, FALSE), Response(200, EmptyFrame, TRUE) }
    \cup { Response(200, b, FALSE) : b \in CsvBodies }

\* results of fetch_csv, with the status it printed
Raised == [ kind |-> "raised", df |-> EmptyFrame, status_code |-> 0, blank |-> TRUE ]
NoFrame(r) ==
    [ kind |-> "None", df |-> EmptyFrame, status_code |-> r.status_code, blank |-> r.blank ]
Frame(r, df) ==
    [ kind |-> "frame", df |-> df, status_code |-> r.status_code, blank |-> r.blank ]
NotFetched == [ kind |-> "unset", df |-> EmptyFrame, status_code |-> 0, blank |-> TRUE ]

\* fetch_csv that does not give up on a status other than 200
fetch_csv_AnyStatus(r, deal_type) ==
    IF r.raised THEN Raised
    ELSE IF r.blank THEN NoFrame(r)
    ELSE Frame(r, assign(r.text, COL_DEAL_TYPE, [ i \in DOMAIN r.text.rows |-> deal_type ]))

\* fetch_csv(url, deal_type), r being what requests.get does
fetch_csv(r, deal_type) ==
    IF r.raised THEN Raised
    ELSE IF r.status_code # 200 \/ r.blank THEN NoFrame(r)
    ELSE Frame(r, assign(r.text, COL_DEAL_TYPE, [ i \in DOMAIN r.text.rows |-> deal_type ]))

\* frames = [df for df in (bulk, block) if df is not None]
Frames(b, k) ==
    (IF b.kind = "frame" THEN << b.df >> ELSE << >>)
    \o (IF k.kind = "frame" THEN << k.df >> ELSE << >>)

\* pd.concat(frames, ignore_index=True) over one or two frames
concat_all(frames) ==
    IF Len(frames) = 1 THEN frames[1] ELSE concat(frames[1], frames[2])

\* df_new["Trade Date"] = pd.to_datetime(df_new[date_col], errors="coerce").dt.date
with_trade_date(df, date_col) ==
    assign(df, COL_TRADE_DATE, [ i \in DOMAIN df.rows |-> to_date(df.rows[i][date_col]) ])

\* the gate letting through the records of the latest stored date as well
is_newer_OrEqual(trade_date, latest_existing) ==
    /\ trade_date # NaT
    /\ latest_existing # NaT
    /\ SetMax(trade_date) >= SetMax(latest_existing)

\* df_new["Trade Date"] > latest_existing, for one cell: a comparison
\* with a null on either side is False
is_newer(trade_date, latest_existing) ==
    /\ trade_date # NaT
    /\ latest_existing # NaT
    /\ SetMax(trade_date) > SetMax(latest_existing)

\* df_old["Trade Date"].max().  Over dates and nulls mixed the reduction
\* either skips the nulls or raises TypeError (a date compared with the
\* float that stands in for a null): skips_nulls says which the installed
\* pandas does.  Over nulls alone, or no rows, the result is null.
Max(value) == [ raised |-> FALSE, value |-> value ]
TypeError == [ raised |-> TRUE, value |-> NaT ]
latest_existing(df_old, skips_nulls) ==
    LET dates == TradeDates(df_old)
    IN  IF dates = {} THEN Max(NaT)
        ELSE IF HasNullDate(df_old) /\ ~skips_nulls THEN TypeError
        ELSE Max({ SetMax(dates) })

\* df_new.empty never noticed
empty_Never(df) == FALSE

\* df_new.empty
empty(df) == df.rows = << >>

\* the appending branch keeping only the new records
append_Overwrite(df_old, df_new) == df_new

\* df_final = pd.concat([df_old, df_new], ignore_index=True)
append(df_old, df_new) == concat(df_old, df_new)

\* the Trade Date cells of the rows of df
DateCells(df) == { df.rows[i][COL_TRADE_DATE] : i \in DOMAIN df.rows }

\* how a run ended: the message it printed, the master file it leaves,
\* whether to_parquet ran, and the dates it appended and discarded
Ended(outcome, file, wrote, kept, dropped) ==
    [ outcome |-> outcome, file |-> file, wrote |-> wrote,
      kept |-> kept, dropped |-> dropped ]

\* CLEAN & SAVE: drop_duplicates, then to_parquet
clean_and_save(df_final, kept, dropped) ==
    Ended("Updated", File(drop_duplicates(df_final)), TRUE, kept, dropped)

\* the rest of run() appending the whole batch, no gate and no clean-up
run_merge_NaiveAppend(file, b, k, skips_nulls) ==
    LET frames == Frames(b, k)
        df_new == concat_all(frames)
        date_col == detect_date_column(df_new)
        dated == with_trade_date(df_new, date_col[1])
    IN  IF frames = << >> THEN Ended("NoData", file, FALSE, {}, {})
        ELSE IF date_col = << >> THEN Ended("NoDateColumn", file, FALSE, {}, {})
        ELSE IF file.exists
        THEN Ended("Updated", File(concat(file.table, dated)), TRUE,
                   DateCells(dated), {})
        ELSE Ended("Updated", File(dated), TRUE, DateCells(dated), {})

\* run() after the two fetches, lines 51-102, given the master file, the
\* two fetch results and what max() does over nulls
run_merge(file, b, k, skips_nulls) ==
    LET frames == Frames(b, k)
        df_new == concat_all(frames)
        date_col == detect_date_column(df_new)
        dated == with_trade_date(df_new, date_col[1])
        \* read_parquet, and the stored dates parsed again: dates stay the
        \* dates they are, nulls stay null
        df_old == file.table
        latest == latest_existing(df_old, skips_nulls)
        mask == { i \in DOMAIN dated.rows :
                    is_newer(dated.rows[i][COL_TRADE_DATE], latest.value) }
        gated == select(dated, mask)
        discarded == DateCells(select(dated, DOMAIN dated.rows \ mask))
    IN  IF frames = << >> THEN Ended("NoData", file, FALSE, {}, {})
        ELSE IF date_col = << >> THEN Ended("NoDateColumn", file, FALSE, {}, {})
        ELSE IF file.exists
        THEN IF latest.raised THEN Ended("Raised", file, FALSE, {}, {})
             ELSE IF empty(gated)
             THEN Ended("NoNewData", file, FALSE, {}, discarded)
             ELSE clean_and_save(append(df_old, gated), DateCells(gated), discarded)
        ELSE clean_and_save(dated, DateCells(dated), {})

NoReport ==
    [ outcome |-> "none", wrote |-> FALSE, kept |-> {}, dropped |-> {},
      feeds |-> << "unset", "unset" >> ]
Aborted(b, k) ==
    [ NoReport EXCEPT !.outcome = "Raised", !.feeds = << b, k >> ]
ReportOf(e, b, k) ==
    [ outcome |-> e.outcome, wrote |-> e.wrote, kept |-> e.kept,
      dropped |-> e.dropped, feeds |-> << b.kind, k.kind >> ]

InitMerger ==
    /\ disk = [ f \in { MASTER_FILE, DATA_FILE } |-> Absent ]
    /\ pc = "idle"
    /\ bulk = NotFetched
    /\ block = NotFetched
    /\ report = NoReport

\* run(), line 48: bulk = fetch_csv(BULK_URL, "Bulk"); an exception of
\* requests.get ends the script
FetchBulk ==
    /\ pc = "idle"
    /\ \E r \in CsvResponses :
         LET res == fetch_csv(r, "Bulk")
         IN  IF res.kind = "raised"
             THEN /\ pc' = "idle"
                  /\ bulk' = NotFetched
                  /\ report' = Aborted("raised", "unset")
             ELSE /\ pc' = "fetchBlock"
                  /\ bulk' = res
                  /\ report' = NoReport
    /\ UNCHANGED << disk, block >>

\* run(), line 49: block = fetch_csv(BLOCK_URL, "Block")
FetchBlock ==
    /\ pc = "fetchBlock"
    /\ \E r \in CsvResponses :
         LET res == fetch_csv(r, "Block")
         IN  IF res.kind = "raised"
             THEN /\ pc' = "idle"
                  /\ bulk' = NotFetched
                  /\ block' = NotFetched
                  /\ report' = Aborted(bulk.kind, "raised")
             ELSE /\ pc' = "merge"
                  /\ block' = res
                  /\ UNCHANGED << bulk, report >>
    /\ UNCHANGED disk

\* what max() may do over the stored dates: only over dates mixed with
\* nulls does it matter
MaxBehaviours(df_old) ==
    IF TradeDates(df_old) # {} /\ HasNullDate(df_old) THEN BOOLEAN ELSE { TRUE }

\* run(), lines 51-102: the merge, the write being its last step; the
\* locals die with the return
Merge ==
    /\ pc = "merge"
    /\ \E skips_nulls \in MaxBehaviours(disk[MASTER_FILE].table) :
         LET e == run_merge(disk[MASTER_FILE], bulk, block, skips_nulls)
         IN  /\ disk' = [ disk EXCEPT ![MASTER_FILE] = e.file ]
             /\ report' = ReportOf(e, bulk, block)
    /\ pc' = "idle"
    /\ bulk' = NotFetched
    /\ block' = NotFetched

(***************************************************************************)
(* MFH_Analysis.py: the reader of the persisted data                       *)
(***************************************************************************)
\* str.strip() of a column name
RECURSIVE lstrip(_)
lstrip(s) == IF s # << >> /\ Head(s) = " " THEN lstrip(Tail(s)) ELSE s
RECURSIVE rstrip(_)
rstrip(s) ==
    IF s # << >> /\ s[Len(s)] = " " THEN rstrip(SubSeq(s, 1, Len(s) - 1)) ELSE s
strip(s) == rstrip(lstrip(s))

\* df.columns = df.columns.str.strip()
strip_column(col) == Spelt(strip(Spelling(col)))
strip_columns(df) ==
    [ columns |-> [ i \in DOMAIN df.columns |-> strip_column(df.columns[i]) ],
      rows |-> [ i \in DOMAIN df.rows |->
                   [ c \in { strip_column(d) : d \in Range(df.columns) } |->
                       LET d == CHOOSE d \in Range(df.columns) : strip_column(d) = c
                       IN  df.rows[i][d] ] ] ]

\* load_data(): pd.read_csv(DATA_FILE) raises FileNotFoundError when the
\* file is not there; nothing around the call catches it
load_data(file) ==
    IF ~file.exists THEN [ outcome |-> "FileNotFoundError", df |-> EmptyFrame ]
    ELSE LET df == strip_columns(file.table)
             fallback == detect_date_column(df)
             out == IF COL_TRADE_DATE \in Range(df.columns)
                    THEN with_trade_date(df, COL_TRADE_DATE)
                    ELSE IF fallback # << >>
                    THEN with_trade_date(df, fallback[1])
                    ELSE df
         IN  [ outcome |-> IF empty(out) THEN "NoData" ELSE "Loaded", df |-> out ]

InitReader == reader = [ outcome |-> "none", df |-> EmptyFrame ]

\* the analysis page is opened: df = load_data(), then the df.empty test.
\* The page and the merger script are separate programs run one after the
\* other; between the steps of run() the disk is what it was at its start.
LoadData ==
    /\ pc = "idle"
    /\ reader' = load_data(disk[DATA_FILE])
    /\ UNCHANGED mergerVars

(***************************************************************************)
(* MF_Paricipation.py: the live dashboard                                  *)
(***************************************************************************)
\* the counterparties of the records of an API answer
ApiNames ==
    { Str(<<"S","B","I"," ","M","U","T","U","A","L"," ","F","U","N","D">>),
      Str(<<"R","A","N","D","O","M"," ","L","T","D">>) }

ApiColumns == << COL_TRADEDATE, COL_CLIENT, COL_SELL_CLIENT >>

ApiRecords ==
    { [ c \in Range(ApiColumns) |->
          CASE c = COL_TRADEDATE -> d
            [] c = COL_CLIENT -> buyer
            [] c = COL_SELL_CLIENT -> seller ] :
      d \in RawDates, buyer \in ApiNames, seller \in ApiNames }

\* the "data" list of an API answer, as the table pd.DataFrame(data) makes
ApiData ==
    { [ columns |-> ApiColumns, rows |-> [ i \in 1..n |-> recs[i] ] ] :
      n \in 0..MaxRows, recs \in [ 1..MaxRows -> ApiRecords ] }

\* what s.get can come back with: an exception, or a status and a body
\* that r.json() decodes or not
ApiTimeout == [ raised |-> TRUE, status_code |-> 0, decodes |-> FALSE, data |-> EmptyFrame ]
ApiResponse(code, decodes, data) ==
    [ raised |-> FALSE, status_code |-> code, decodes |-> decodes, data |-> data ]

ApiResponses ==
    { ApiTimeout, ApiResponse(401, FALSE, EmptyFrame), ApiResponse(200, FALSE, EmptyFrame) }
    \cup { ApiResponse(200, TRUE, d) : d \in ApiData }

ApiNone == [ kind |-> "none", df |-> EmptyFrame ]
ApiRaised == [ kind |-> "raised", df |-> EmptyFrame ]

\* lines 69-79 of fetch_bulk_block: what it returns for its frames
api_return(frames) ==
    IF frames = << >> THEN [ kind |-> "empty", df |-> EmptyFrame ]
    ELSE [ kind |-> "frame",
           df |-> with_trade_date(concat_all(frames), COL_TRADEDATE) ]

\* one round of the loop of fetch_bulk_block: "raised", "skip" or the
\* frame to append
api_round(r, deal_type) ==
    IF r.raised THEN [ kind |-> "raised", df |-> EmptyFrame ]
    ELSE IF r.status_code # 200 THEN [ kind |-> "skip", df |-> EmptyFrame ]
    ELSE IF ~r.decodes THEN [ kind |-> "raised", df |-> EmptyFrame ]
    ELSE IF empty(r.data) THEN [ kind |-> "skip", df |-> EmptyFrame ]
    ELSE [ kind |-> "frame",
           df |-> assign(r.data, COL_DEAL_TYPE, [ i \in DOMAIN r.data.rows |-> deal_type ]) ]

\* the dates the sidebar can select: the fetched days and a day without deals
SelectableDates == { { 20240110 }, { 20240111 }, { 20240112 } }

NoPage == [ outcome |-> "none", df |-> EmptyFrame ]

\* lines 115-126 of the dashboard: the day's records, classified; a fetch
\* that raised, or the frame without columns that fetch_bulk_block
\* returns when no feed answered (it has no "Trade Date"), ends the page
\* with the exception
render(result, selected_date) ==
    IF result.kind = "raised" THEN [ outcome |-> "Exception", df |-> EmptyFrame ]
    ELSE IF COL_TRADE_DATE \notin Range(result.df.columns)
    THEN [ outcome |-> "KeyError", df |-> EmptyFrame ]
    ELSE LET day == select(result.df,
                      { i \in DOMAIN result.df.rows :
                          result.df.rows[i][COL_TRADE_DATE] = selected_date })
         IN  IF empty(day) THEN [ outcome |-> "NoDeals", df |-> day ]
             ELSE [ outcome |-> "Shown",
                    df |-> assign(day, COL_SIGNAL,
                              [ i \in DOMAIN day.rows |-> classify_flow(day.rows[i]) ]) ]

InitApi ==
    /\ apiPc = "idle"
    /\ apiFrames = << >>
    /\ apiResult = ApiNone
    /\ page = NoPage

\* the dashboard is opened: nse_session(), whose warm-up request of the
\* home page can raise; its status is not looked at
NseSession ==
    /\ apiPc = "idle"
    /\ \E warmup \in { "answered", "timeout" } :
         IF warmup = "timeout"
         THEN /\ apiPc' = "loaded"
              /\ apiResult' = ApiRaised
         ELSE /\ apiPc' = "Bulk"
              /\ apiResult' = ApiNone
    /\ apiFrames' = << >>
    /\ page' = NoPage

\* the loop round for the bulk deals
ApiGetBulk ==
    /\ apiPc = "Bulk"
    /\ \E r \in ApiResponses :
         LET got == api_round(r, "Bulk")
         IN  IF got.kind = "raised"
             THEN /\ apiPc' = "loaded"
                  /\ apiFrames' = << >>
                  /\ apiResult' = ApiRaised
             ELSE /\ apiPc' = "Block"
                  /\ apiFrames' = IF got.kind = "frame"
                                  THEN Append(apiFrames, got.df) ELSE apiFrames
                  /\ UNCHANGED apiResult
    /\ UNCHANGED page

\* the loop round for the block deals, and the return
ApiGetBlock ==
    /\ apiPc = "Block"
    /\ \E r \in ApiResponses :
         LET got == api_round(r, "Block")
         IN  IF got.kind = "raised"
             THEN apiResult' = ApiRaised
             ELSE apiResult' = api_return(IF got.kind = "frame"
                                          THEN Append(apiFrames, got.df)
                                          ELSE apiFrames)
    /\ apiPc' = "loaded"
    /\ apiFrames' = << >>
    /\ UNCHANGED page

\* the rest of the script: the selected day, classified and shown
Render ==
    /\ apiPc = "loaded"
    /\ \E selected_date \in SelectableDates :
         page' = render(apiResult, selected_date)
    /\ apiPc' = "idle"
    /\ UNCHANGED << apiFrames, apiResult >>

(***************************************************************************)
(* Specifications                                                          *)
(***************************************************************************)
Init == InitMerger /\ InitReader /\ InitApi /\ InitClassifierIdle

\* the merger script, run again and again
Next ==
    \/ FetchBulk /\ UNCHANGED << reader, apiVars, classifierVars >>
    \/ FetchBlock /\ UNCHANGED << reader, apiVars, classifierVars >>
    \/ Merge /\ UNCHANGED << reader, apiVars, classifierVars >>

Spec == Init /\ [][Next]_vars

\* the merger script and the analysis page that reads the data
NextReader ==
    \/ Next
    \/ LoadData /\ UNCHANGED << apiVars, classifierVars >>

SpecReader == Init /\ [][NextReader]_vars

\* the live dashboard, opened again and again
NextDashboard ==
    \/ NseSession /\ UNCHANGED << mergerVars, reader, classifierVars >>
    \/ ApiGetBulk /\ UNCHANGED << mergerVars, reader, classifierVars >>
    \/ ApiGetBlock /\ UNCHANGED << mergerVars, reader, classifierVars >>
    \/ Render /\ UNCHANGED << mergerVars, reader, classifierVars >>

SpecDashboard == Init /\ [][NextDashboard]_vars

\* the classifier applied to every record over Names
InitClassify ==
    /\ InitMerger /\ InitReader /\ InitApi
    /\ row \in [ clientName : Names, sellClientName : Names ]
    /\ signal = Unset
    /\ verdict = [ dashboard |-> Unset, analysis |-> Unset ]

NextClassify ==
    \/ ApplyClassifyFlow /\ UNCHANGED << mergerVars, reader, apiVars >>
    \/ ApplyIsMutualFund /\ UNCHANGED << mergerVars, reader, apiVars >>
    \/ ApplyMfhIsMutualFund /\ UNCHANGED << mergerVars, reader, apiVars >>

SpecClassify == InitClassify /\ [][NextClassify]_vars

(***************************************************************************)
(* Properties                                                              *)
(***************************************************************************)
Master == disk[MASTER_FILE]

\* a row of a narrower table seen in the columns cols
Widen(r, cols) == [ c \in Range(cols) |-> Cell(r, c) ]

\* the rows of new that are no row of old
AddedRows(old, new) ==
    Range(new.rows) \ { Widen(r, new.columns) : r \in Range(old.rows) }

\* the batch of a run once normalised: the rows of both fetched frames
\* with their Trade Date, or no rows when nothing was fetched or no date
\* column was found
Incoming(b, k) ==
    LET frames == Frames(b, k)
        date_col == detect_date_column(concat_all(frames))
    IN  IF frames = << >> \/ date_col = << >> THEN EmptyFrame
        ELSE with_trade_date(concat_all(frames), date_col[1])

Later(r, mark) == r[COL_TRADE_DATE] # NaT /\ SetMax(r[COL_TRADE_DATE]) > mark

\* C1: when the master file holds a latest trade date, the rows a run of
\* run() that ends normally adds to it are exactly the fetched rows whose
\* trade date is strictly later than that date.
C1_HighWaterMarkGate ==
    [][ ( /\ pc = "merge"
          /\ Master.exists
          /\ TradeDates(Master.table) # {}
          /\ report'.outcome # "Raised" )
        => LET mark == SetMax(TradeDates(Master.table))
               new == disk'[MASTER_FILE].table
           IN  AddedRows(Master.table, new)
                 = { Widen(r, new.columns) :
                       r \in { x \in Range(Incoming(bulk, block).rows) : Later(x, mark) } }
      ]_vars

\* C1 witness: against a master file whose latest date was 2024-01-10 a
\* run discarded a 2024-01-10 record and appended a 2024-01-11 record.
C1_Witness ==
    /\ report.outcome = "Updated"
    /\ report.kept = { { 20240111 } }
    /\ { 20240110 } \in report.dropped
    /\ TradeDates(Master.table) = { 20240110, 20240111 }

\* C2: running run() once more on the same fetched batch changes nothing:
\* for every master file and batch about to be merged, merging the batch
\* into the master file the first merge leaves gives that master file again.
C2_Idempotent ==
    pc = "merge" =>
        \A skips_nulls \in BOOLEAN :
            LET once == run_merge(Master, bulk, block, skips_nulls).file
            IN  run_merge(once, bulk, block, skips_nulls).file = once

\* C2 witness: a batch that the first merge appends to an existing master
\* file (the second merge then has rows to turn away).
C2_Witness ==
    /\ pc = "merge"
    /\ Master.exists
    /\ LET once == run_merge(Master, bulk, block, TRUE)
       IN  /\ once.outcome = "Updated"
           /\ run_merge(once.file, bulk, block, TRUE).outcome = "NoNewData"

\* C3: no step removes the master file, a row of it or a trade date of it,
\* so its latest trade date never decreases.
C3_MonotoneCoverage ==
    [][ LET new == disk'[MASTER_FILE]
        IN  /\ Master.exists => new.exists
            /\ TradeDates(Master.table) \subseteq TradeDates(new.table)
            /\ \A r \in Range(Master.table.rows) :
                   Widen(r, new.table.columns) \in Range(new.table.rows)
            /\ Len(Master.table.rows) <= Len(new.table.rows)
      ]_vars

\* C3 witness: a run appended a later date to a master file that keeps
\* its earlier one.
C3_Witness ==
    /\ report.outcome = "Updated"
    /\ report.kept = { { 20240111 } }
    /\ 20240110 \in TradeDates(Master.table)

\* C4: every row of the master file has a trade date.
C4_TradeDateNeverNull == ~HasNullDate(Master.table)

\* C5: a run that fetched no frame, found no date column, or fetched no
\* row later than the latest stored date does not write: to_parquet does
\* not run and the disk is as it was.
C5_NoWriteOnNoOp ==
    [][ ( /\ pc = "merge"
          /\ \/ Frames(bulk, block) = << >>
             \/ detect_date_column(concat_all(Frames(bulk, block))) = << >>
             \/ /\ Master.exists
                /\ \A r \in Range(Incoming(bulk, block).rows) :
                       \/ TradeDates(Master.table) = {}
                       \/ ~Later(r, SetMax(TradeDates(Master.table))) )
        => /\ disk' = disk
           /\ ~report'.wrote
           /\ report'.outcome \in { "NoData", "NoDateColumn", "NoNewData", "Raised" }
      ]_vars

\* C5 witness: a run against an existing master file ended with nothing
\* new, having discarded fetched records.
C5_Witness ==
    /\ report.outcome = "NoNewData"
    /\ report.dropped # {}
    /\ Master.exists

Failing(res) == res.status_code # 200 \/ res.blank

\* the rows of the frame res fetched are in table, tagged deal_type
MergedTagged(res, deal_type, table) ==
    \A r \in Range(res.df.rows) :
        \E s \in Range(table.rows) :
            /\ s[COL_DEAL_TYPE] = deal_type
            /\ \A c \in Range(res.df.columns) \ { COL_DEAL_TYPE } : s[c] = r[c]

C7_FetchNeverRaises == apiResult.kind # "raised"

\* C10: the reader never ends with an unhandled exception.
C10_ReaderTolerates == reader.outcome # "FileNotFoundError"

Digits == { "0", "1", "2", "3", "4", "5", "6", "7", "8", "9" }
Alnum(ch) == ch \in Range(UpperCase) \cup Range(LowerCase) \cup Digits

\* the occurrence of k at position i of s is a whole word or run of words
WholeWordAt(k, s, i) ==
    /\ i = 1 \/ ~Alnum(s[i - 1])
    /\ i + Len(k) > Len(s) \/ ~Alnum(s[i + Len(k)])

HasWholeWord(keywords, s) ==
    \E j \in DOMAIN keywords :
        \E i \in Occurrences(keywords[j], s) : WholeWordAt(keywords[j], s, i)

WordBoundaryVerdict(keywords, name, said) ==
    (said # Unset /\ name.isStr)
    => /\ name.text \in Range(keywords) => said = "True"
       /\ ~HasWholeWord(keywords, upper(name.text)) => said = "False"

\* C8: with either keyword list, a name equal to a keyword is
\* institutional, and a name in which no keyword stands as a whole word
\* (a keyword at most inside a longer word) is not institutional.
C8_WordBoundaryMatching ==
    /\ WordBoundaryVerdict(KEYWORDS, row.clientName, verdict.dashboard)
    /\ WordBoundaryVerdict(MF_KEYWORDS, row.clientName, verdict.analysis)

\* C9: classify_flow gives every record exactly one signal: accumulation
\* iff the buyer is institutional and the seller is not, exit iff the
\* seller is institutional and the buyer is not, ignore iff both or
\* neither are; a name that is no string is never institutional.
C9_DualCounterparty ==
    signal # Unset =>
        LET buyer == is_mutual_fund(row.clientName)
            seller == is_mutual_fund(row.sellClientName)
        IN  /\ signal \in { ACCUMULATION, EXIT, IGNORE }
            /\ signal = ACCUMULATION <=> (buyer /\ ~seller)
            /\ signal = EXIT <=> (seller /\ ~buyer)
            /\ signal = IGNORE <=> (buyer <=> seller)
            /\ ~row.clientName.isStr => signal # ACCUMULATION
            /\ ~row.sellClientName.isStr => signal # EXIT
            /\ (~row.clientName.isStr /\ ~row.sellClientName.isStr) => signal = IGNORE

\* C9 witness: an institutional buyer facing a record without a seller
\* name was classified as accumulation.
C9_Witness ==
    /\ signal = ACCUMULATION
    /\ row.clientName = Str(<<"S","B","I"," ","M","U","T","U","A","L"," ","F","U","N","D">>)
    /\ row.sellClientName = None
====
